---- MODULE Spec2Model ----
(***************************************************************************)
(* Text decorations (crates/typst-library/src/text/deco.rs) and the        *)
(* sub-/superscript text search (src/library/text/shift.rs).               *)
(*                                                                         *)
(* Lengths (Abs) are integers in raw units; font-unit values are integers  *)
(* in 1/units_per_em of an em.  All values are chosen so that the scaling  *)
(* v / units_per_em * size and the factors 0.08 and 0.162 are exact.       *)
(* Option<T> and Smart<T> are sequences of length 0 (None / Auto) or 1.    *)
(***************************************************************************)
EXTENDS Integers, Sequences, FiniteSets, TLC

VARIABLES
    frame,          \* the Frame: sequence of items, back-to-front
    initial,        \* the frame as it was before any decorate call
    prev,           \* the frame before the latest decorate call
    todo,           \* decorations of the run still to be applied (Vec<Decoration>)
    done,           \* decorations applied so far, in call order
    intersections,  \* decorate's local `intersections` at the end of the latest call
    scan,           \* the passes of the glyph loop of the latest call: origin, cursor, hits
    text,           \* the TextItem: [glyphs, size]
    pos,            \* the run position: [x, y]
    shift,          \* the baseline shift
    content,        \* the Content handed to search_text
    mode,           \* the ScriptKind handed to search_text
    found           \* results of search_text so far: sequence of Option<EcoString>

vars == <<frame, initial, prev, todo, done, intersections, scan, text, pos, shift,
          content, mode, found>>

\* -------------------------------------------------------------------------
\* Bounds of the model
\* -------------------------------------------------------------------------
MaxGlyphs == 2

MaxDecos == 3

MaxNodes == 4

\* -------------------------------------------------------------------------
\* Generic helpers
\* -------------------------------------------------------------------------
Max(a, b) == IF a >= b THEN a ELSE b

Min(a, b) == IF a <= b THEN a ELSE b

RECURSIVE SeqsUpTo(_, _)
SeqsUpTo(S, n) ==
    IF n = 0 THEN {<<>>}
    ELSE LET R == SeqsUpTo(S, n - 1)
         IN  R \cup {Append(r, e) : r \in {q \in R : Len(q) = n - 1}, e \in S}

RECURSIVE Concat(_)
Concat(ss) == IF ss = <<>> THEN <<>> ELSE Head(ss) \o Concat(Tail(ss))

\* Vec::sort on a list of Abs: ascending.
RECURSIVE InsertSorted(_, _)
InsertSorted(v, s) ==
    IF s = <<>> THEN <<v>>
    ELSE IF v <= Head(s) THEN <<v>> \o s
    ELSE <<Head(s)>> \o InsertSorted(v, Tail(s))

\* sort left out: the list stays in collection order.
sort_Unsorted(s) == s

RECURSIVE sort(_)
sort(s) == IF s = <<>> THEN <<>> ELSE InsertSorted(Head(s), sort(Tail(s)))

\* slice::windows(2)
windows2(s) == [i \in 1..(IF Len(s) >= 2 THEN Len(s) - 1 ELSE 0) |-> <<s[i], s[i + 1]>>]

\* -------------------------------------------------------------------------
\* The font: metrics and glyph table, in font units (y up)
\* -------------------------------------------------------------------------
FontMetrics ==
    [units_per_em  |-> 1000,
     ascender      |-> 800,
     cap_height    |-> 700,
     x_height      |-> 500,
     descender     |-> -200,
     strikethrough |-> [position |-> 300,  thickness |-> 60],
     underline     |-> [position |-> -100, thickness |-> 40],
     overline      |-> [position |-> 900,  thickness |-> 20]]

\* The closed contour of an axis-aligned rectangle, as the outline builder
\* receives it: move_to, three line_to, close.
RectContour(x0, y0, x1, y1) ==
    << [p0 |-> <<x0, y0>>, p1 |-> <<x1, y0>>],
       [p0 |-> <<x1, y0>>, p1 |-> <<x1, y1>>],
       [p0 |-> <<x1, y1>>, p1 |-> <<x0, y1>>],
       [p0 |-> <<x0, y1>>, p1 |-> <<x0, y0>>] >>

BBox(x0, y0, x1, y1) == << [x_min |-> x0, y_min |-> y0, x_max |-> x1, y_max |-> y1] >>

\* Glyph 1: a space (no outline, no bounding box).
\* Glyph 2: a box on the baseline up to the x-height.
\* Glyph 3: a stem with a descender, 0.1 em wide, taller than the ascender.
\* Glyph 4: two descending stems, one 0.04 em wide, 0.2 em apart.
GlyphTable ==
    [id \in 1..4 |->
        CASE id = 1 -> [bbox |-> <<>>, outline |-> <<>>]
          [] id = 2 -> [bbox |-> BBox(60, 0, 440, 500),
                        outline |-> RectContour(60, 0, 440, 500)]
          [] id = 3 -> [bbox |-> BBox(60, -300, 160, 1000),
                        outline |-> RectContour(60, -300, 160, 1000)]
          [] id = 4 -> [bbox |-> BBox(40, -200, 380, 400),
                        outline |-> RectContour(40, -200, 80, 400)
                                    \o RectContour(280, -200, 380, 400)]]

\* Em::at(size): a font-unit value as a length at the given font size.
at(v, size) == (v * size) \div FontMetrics.units_per_em

\* TextItem::width: the sum of the advances, at the run's size.
RECURSIVE SumAdvance(_)
SumAdvance(glyphs) ==
    IF glyphs = <<>> THEN 0 ELSE Head(glyphs).x_advance + SumAdvance(Tail(glyphs))

TextWidth(t) == at(SumAdvance(t.glyphs), t.size)

\* -------------------------------------------------------------------------
\* Frame operations
\* -------------------------------------------------------------------------
FramePrepend(f, item) == <<item>> \o f

FramePush(f, item) == Append(f, item)

\* -------------------------------------------------------------------------
\* decorate
\* -------------------------------------------------------------------------
\* TopEdge::resolve / BottomEdge::resolve: a font metric or a fixed length.
EdgeResolve(edge, t) ==
    IF edge.tag = "Length" THEN edge.v
    ELSE at(CASE edge.metric = "ascender"   -> FontMetrics.ascender
              [] edge.metric = "cap-height" -> FontMetrics.cap_height
              [] edge.metric = "x-height"   -> FontMetrics.x_height
              [] edge.metric = "baseline"   -> 0
              [] edge.metric = "descender"  -> FontMetrics.descender,
            t.size)

RECURSIVE TopBottomLoop(_, _, _, _)
TopBottomLoop(glyphs, t, top, bottom) ==
    IF glyphs = <<>> THEN <<top, bottom>>
    ELSE LET bb == GlyphTable[Head(glyphs).id].bbox
         IN  IF bb # <<>>
             THEN TopBottomLoop(Tail(glyphs), t,
                                Max(top, at(bb[1].y_max, t.size)),
                                Min(bottom, at(bb[1].y_min, t.size)))
             ELSE TopBottomLoop(Tail(glyphs), t, top, bottom)

\* The bottom edge is not widened by the glyphs.
get_top_bottom_NominalBottom(t, top_edge, bottom_edge) ==
    <<TopBottomLoop(t.glyphs, t, EdgeResolve(top_edge, t), EdgeResolve(bottom_edge, t))[1],
      EdgeResolve(bottom_edge, t)>>

get_top_bottom(t, top_edge, bottom_edge) ==
    TopBottomLoop(t.glyphs, t, EdgeResolve(top_edge, t), EdgeResolve(bottom_edge, t))

gap_padding(size) == (8 * size) \div 100

\* A slipped decimal in the factor.
min_width_Slipped(size) == (162 * size) \div 10000

min_width(size) == (162 * size) \div 1000

\* push_segment without the minimum-width filter.
push_segment_Unfiltered(f, from, to, y, stroke, evade, size) ==
    FramePush(f, [kind |-> "line", x |-> from, y |-> y, dx |-> to - from,
                  thickness |-> stroke.thickness])

\* The closure push_segment: returns the frame after the call.
push_segment(f, from, to, y, stroke, evade, size) ==
    LET target == to - from
    IN  IF target >= min_width(size) \/ ~evade
        THEN FramePush(f, [kind |-> "line", x |-> from, y |-> y, dx |-> target,
                           thickness |-> stroke.thickness])
        ELSE f

\* BezPathBuilder::p: a font-unit point as a document point, y flipped.
BezP(pt, size, x_offset) == <<at(pt[1], size) + x_offset, -at(pt[2], size)>>

\* PathSeg::intersect_line for a straight path segment against the horizontal
\* decoration line from (lx0, ly) to (lx1, ly): the x of the hit, if any.
\* A segment parallel to the line (det = 0) never hits; the hit must lie on
\* the segment and on the line (line_t in [0, 1]).
intersect_line(seg, lx0, lx1, ly) ==
    LET ldx == lx1 - lx0
        det == ldx * (seg.p1[2] - seg.p0[2])
        ylo == Min(seg.p0[2], seg.p1[2])
        yhi == Max(seg.p0[2], seg.p1[2])
        hx  == seg.p0[1]
    IN  IF det = 0 THEN <<>>
        ELSE IF ly >= ylo /\ ly <= yhi /\ hx >= Min(lx0, lx1) /\ hx <= Max(lx0, lx1)
        THEN <<hx>>
        ELSE <<>>

\* The path of one glyph in document units, built at x origin dx.
GlyphPath(id, size, dx) ==
    LET o == GlyphTable[id].outline
    IN  [i \in 1..Len(o) |-> [p0 |-> BezP(o[i].p0, size, dx),
                              p1 |-> BezP(o[i].p1, size, dx)]]

\* The bounding-box test with the y flip forgotten.
bbox_intersect_Unflipped(bbox, offset, size) ==
    IF bbox = <<>> THEN FALSE
    ELSE offset >= at(bbox[1].y_min, size) /\ offset <= at(bbox[1].y_max, size)

\* The bounding-box test before the costly intersection test.
bbox_intersect(bbox, offset, size) ==
    IF bbox = <<>> THEN FALSE
    ELSE LET y_min == -at(bbox[1].y_max, size)
             y_max == -at(bbox[1].y_min, size)
         IN  offset >= y_min /\ offset <= y_max

\* One pass of the loop body with the cursor advanced only for a glyph that
\* has a bounding box.
ScanStep_BoxedAdvance(glyph, x, size, offset, lx0, lx1) ==
    LET dx   == at(glyph.x_offset, size) + x
        path == GlyphPath(glyph.id, size, dx)
        test == bbox_intersect(GlyphTable[glyph.id].bbox, offset, size)
    IN  [id        |-> glyph.id,
         dx        |-> dx,
         x         |-> IF GlyphTable[glyph.id].bbox = <<>> THEN x
                       ELSE x + at(glyph.x_advance, size),
         intersect |-> test,
         hits      |-> IF test
                       THEN Concat([i \in 1..Len(path) |->
                                       intersect_line(path[i], lx0, lx1, offset)])
                       ELSE <<>>]

\* One pass of the loop body for a glyph with the cursor at x: the x origin
\* the path is built at, the cursor afterwards, the outcome of the
\* bounding-box test and the intersections added.
ScanStep(glyph, x, size, offset, lx0, lx1) ==
    LET dx   == at(glyph.x_offset, size) + x
        path == GlyphPath(glyph.id, size, dx)
        x2   == x + at(glyph.x_advance, size)
        test == bbox_intersect(GlyphTable[glyph.id].bbox, offset, size)
    IN  [id        |-> glyph.id,
         dx        |-> dx,
         x         |-> x2,
         intersect |-> test,
         hits      |-> IF test
                       THEN Concat([i \in 1..Len(path) |->
                                       intersect_line(path[i], lx0, lx1, offset)])
                       ELSE <<>>]

\* The loop over the glyphs, pass by pass, in run order.
RECURSIVE ScanLoop(_, _, _, _, _, _)
ScanLoop(glyphs, x, size, offset, lx0, lx1) ==
    IF glyphs = <<>> THEN <<>>
    ELSE LET step == ScanStep(Head(glyphs), x, size, offset, lx0, lx1)
         IN  <<step>> \o ScanLoop(Tail(glyphs), step.x, size, offset, lx0, lx1)

\* The loop over the glyphs: the collected intersections, in collection order.
ScanGlyphs(glyphs, x, size, offset, lx0, lx1) ==
    LET passes == ScanLoop(glyphs, x, size, offset, lx0, lx1)
    IN  Concat([i \in 1..Len(passes) |-> passes[i].hits])

\* The loop over windows(2) of the sorted points.
RECURSIVE EmitSegments(_, _, _, _, _, _)
EmitSegments(f, edges, y, stroke, evade, size) ==
    IF edges = <<>> THEN f
    ELSE LET l == Head(edges)[1]
             r == Head(edges)[2]
         IN  IF r - l < gap_padding(size)
             THEN EmitSegments(f, Tail(edges), y, stroke, evade, size)
             ELSE EmitSegments(
                    push_segment(f, l + gap_padding(size), r - gap_padding(size),
                                 y, stroke, evade, size),
                    Tail(edges), y, stroke, evade, size)

\* The font metrics of a line decoration kind.
LineMetrics(line) ==
    CASE line.kind = "Strikethrough" -> FontMetrics.strikethrough
      [] line.kind = "Overline"      -> FontMetrics.overline
      [] line.kind = "Underline"     -> FontMetrics.underline

LineEvade(line) == IF line.kind = "Strikethrough" THEN FALSE ELSE line.evade

\* The shift is subtracted from the default offset only.
LineOffset_ShiftDefaultOnly(line, t, sh) ==
    IF line.offset = <<>> THEN -at(LineMetrics(line).position, t.size) - sh
    ELSE line.offset[1]

\* offset.unwrap_or(-metrics.position.resolve(styles)) - shift
LineOffset(line, t, sh) ==
    (IF line.offset = <<>> THEN -at(LineMetrics(line).position, t.size)
     ELSE line.offset[1]) - sh

\* stroke.clone().unwrap_or(Stroke { thickness: metrics.thickness, .. })
LineStroke(line, t) ==
    IF line.stroke = <<>> THEN [thickness |-> at(LineMetrics(line).thickness, t.size)]
    ELSE line.stroke[1]

\* The extent is added to the width once instead of twice.
HighlightRect_OneExtent(t, deco, sh, p) ==
    LET tb == get_top_bottom(t, deco.line.top_edge, deco.line.bottom_edge)
    IN  [kind |-> "rect",
         x |-> p.x - deco.extent,
         y |-> p.y + ((-tb[1]) - sh),
         w |-> TextWidth(t) + deco.extent,
         h |-> tb[1] - tb[2]]

\* The background of a highlight: size and origin of the filled rectangle.
HighlightRect(t, deco, sh, p) ==
    LET width  == TextWidth(t)
        tb     == get_top_bottom(t, deco.line.top_edge, deco.line.bottom_edge)
        top    == tb[1]
        bottom == tb[2]
        offset == (-top) - sh
    IN  [kind |-> "rect",
         x |-> p.x - deco.extent,
         y |-> p.y + offset,
         w |-> width + 2 * deco.extent,
         h |-> top - bottom]

\* The highlight branch put the rectangle at the back of the frame.
DecorateHighlight_Pushed(f, deco, t, sh, p) == FramePush(f, HighlightRect(t, deco, sh, p))

\* The highlight branch: the rectangle goes behind everything in the frame.
DecorateHighlight(f, deco, t, sh, p) == FramePrepend(f, HighlightRect(t, deco, sh, p))

\* let start = ..; let end = ..;
LineStart(deco, p) == p.x - deco.extent

LineEnd(deco, t, p) == p.x + (TextWidth(t) + 2 * deco.extent)

\* decorate(frame, styles, deco, text, shift, pos): the frame afterwards, the
\* final value of the local list of intersections and the passes of the scan.
decorate(f, deco, t, sh, p) ==
    LET width == TextWidth(t)
    IN  IF deco.line.kind = "Highlight"
        THEN [frame |-> DecorateHighlight(f, deco, t, sh, p),
              intersections |-> <<>>, scan |-> <<>>]
        ELSE LET evade  == LineEvade(deco.line)
                 offset == LineOffset(deco.line, t, sh)
                 stroke == LineStroke(deco.line, t)
                 start  == LineStart(deco, p)
                 end    == LineEnd(deco, t, p)
                 y      == p.y + offset
             IN  IF ~evade
                 THEN [frame |-> push_segment(f, start, end, y, stroke, evade, t.size),
                       intersections |-> <<>>, scan |-> <<>>]
                 ELSE LET scanned == ScanGlyphs(t.glyphs, p.x, t.size, offset,
                                                p.x, p.x + width)
                          pushed  == scanned \o <<start - gap_padding(t.size),
                                                  end + gap_padding(t.size)>>
                          sorted  == sort(pushed)
                      IN  [frame |-> EmitSegments(f, windows2(sorted), y, stroke,
                                                  evade, t.size),
                           intersections |-> sorted,
                           scan |-> ScanLoop(t.glyphs, p.x, t.size, offset,
                                             p.x, p.x + width)]

\* -------------------------------------------------------------------------
\* search_text (shift.rs); characters are their code points
\* -------------------------------------------------------------------------
SUPERSCRIPT == 0

SUBSCRIPT == 1

\* to_superscript_codepoint: Option<char>
to_superscript_codepoint(c) ==
    CASE c = 48 -> <<8304>>                          \* '0' => 0x2070
      [] c = 49 -> <<185>>                           \* '1' => 0x00B9
      [] c = 50 -> <<178>>                           \* '2' => 0x00B2
      [] c = 51 -> <<179>>                           \* '3' => 0x00B3
      [] c >= 52 /\ c <= 57 -> <<8304 + (c + 4 - 52)>>  \* '4'..='9'
      [] c = 43 -> <<8314>>                          \* '+' => 0x207A
      [] c = 45 -> <<8315>>                          \* '-' => 0x207B
      [] c = 61 -> <<8316>>                          \* '=' => 0x207C
      [] c = 40 -> <<8317>>                          \* '(' => 0x207D
      [] c = 41 -> <<8318>>                          \* ')' => 0x207E
      [] c = 110 -> <<8319>>                         \* 'n' => 0x207F
      [] c = 105 -> <<8305>>                         \* 'i' => 0x2071
      [] c = 32 -> <<32>>                            \* ' ' => 0x0020
      [] OTHER -> <<>>

\* to_subscript_codepoint: Option<char>
to_subscript_codepoint(c) ==
    CASE c = 48 -> <<8320>>                          \* '0' => 0x2080
      [] c >= 49 /\ c <= 57 -> <<8320 + (c - 48)>>   \* '1'..='9'
      [] c = 43 -> <<8330>>                          \* '+' => 0x208A
      [] c = 45 -> <<8331>>                          \* '-' => 0x208B
      [] c = 61 -> <<8332>>                          \* '=' => 0x208C
      [] c = 40 -> <<8333>>                          \* '(' => 0x208D
      [] c = 41 -> <<8334>>                          \* ')' => 0x208E
      [] c = 97 -> <<8336>>                          \* 'a' => 0x2090
      [] c = 101 -> <<8337>>                         \* 'e' => 0x2091
      [] c = 111 -> <<8338>>                         \* 'o' => 0x2092
      [] c = 120 -> <<8339>>                         \* 'x' => 0x2093
      [] c = 104 -> <<8341>>                         \* 'h' => 0x2095
      [] c = 107 -> <<8342>>                         \* 'k' => 0x2096
      [] c = 108 -> <<8343>>                         \* 'l' => 0x2097
      [] c = 109 -> <<8344>>                         \* 'm' => 0x2098
      [] c = 110 -> <<8345>>                         \* 'n' => 0x2099
      [] c = 112 -> <<8346>>                         \* 'p' => 0x209A
      [] c = 115 -> <<8347>>                         \* 's' => 0x209B
      [] c = 116 -> <<8348>>                         \* 't' => 0x209C
      [] c = 32 -> <<32>>                            \* ' ' => 0x0020
      [] OTHER -> <<>>

\* The script kind is ignored.
converter_AlwaysSuper(m, c) == to_superscript_codepoint(c)

converter(m, c) ==
    IF m = SUPERSCRIPT THEN to_superscript_codepoint(c) ELSE to_subscript_codepoint(c)

\* convert_script: Option<EcoString>; `result` is the string built so far.
RECURSIVE ConvertLoop(_, _, _)
ConvertLoop(chars, m, result) ==
    IF chars = <<>> THEN <<result>>
    ELSE LET c == converter(m, Head(chars))
         IN  IF c = <<>> THEN <<>>
             ELSE ConvertLoop(Tail(chars), m, Append(result, c[1]))

convert_script(str, m) == ConvertLoop(str, m, <<>>)

\* search_text: Option<EcoString>
RECURSIVE search_text(_, _)
RECURSIVE SearchSeq(_, _, _)
SearchSeq(seq, m, full) ==
    IF seq = <<>> THEN <<full>>
    ELSE LET r == search_text(Head(seq), m)
         IN  IF r = <<>> THEN <<>>
             ELSE SearchSeq(Tail(seq), m, full \o r[1])

search_text(c, m) ==
    CASE c.tag = "Text"     -> convert_script(c.text, m)
      [] c.tag = "Space"    -> << <<32>> >>
      [] c.tag = "Empty"    -> << <<>> >>
      [] c.tag = "Sequence" -> SearchSeq(c.seq, m, <<>>)
      [] OTHER              -> <<>>

\* -------------------------------------------------------------------------
\* Input sets
\* -------------------------------------------------------------------------
\* Font sizes of a shaped run (positive lengths).
Sizes == {500, 1000}

Positions == {[x |-> 0, y |-> 0], [x |-> 100, y |-> 700]}

Shifts == {0, -300}

\* Glyph records {id, x_advance, x_offset} of a shaped run, in font units.
GlyphRecs ==
    {[id |-> 1, x_advance |-> 260, x_offset |-> 0],
     [id |-> 2, x_advance |-> 500, x_offset |-> 0],
     [id |-> 3, x_advance |-> 0,   x_offset |-> -20],
     [id |-> 4, x_advance |-> 500, x_offset |-> 0]}

Runs == SeqsUpTo(GlyphRecs, MaxGlyphs) \ {<<>>}

Texts == {[glyphs |-> g, size |-> sz] : g \in Runs, sz \in Sizes}

Extents == {-490, -40, 0, 80}

Offsets == {<<>>, <<0>>, <<400>>}

TopEdges == {[tag |-> "Metric", metric |-> "ascender"],
             [tag |-> "Metric", metric |-> "x-height"],
             [tag |-> "Length", v |-> 300]}

BottomEdges == {[tag |-> "Metric", metric |-> "descender"],
                [tag |-> "Metric", metric |-> "baseline"]}

Underline(o, e) == [kind |-> "Underline", stroke |-> <<>>, offset |-> o, evade |-> e]

Overline(o, e) == [kind |-> "Overline", stroke |-> <<>>, offset |-> o, evade |-> e]

Strikethrough(o) == [kind |-> "Strikethrough", stroke |-> <<>>, offset |-> o]

Highlight(te, be) == [kind |-> "Highlight", top_edge |-> te, bottom_edge |-> be]

DecoLines ==
    {Underline(o, e) : o \in Offsets, e \in BOOLEAN}
    \cup {Overline(o, e) : o \in Offsets, e \in BOOLEAN}
    \cup {Strikethrough(o) : o \in Offsets}
    \cup {Highlight(te, be) : te \in TopEdges, be \in BottomEdges}

Decos == {[line |-> l, extent |-> e] : l \in DecoLines, e \in Extents}

\* A few decorations for longer sequences of calls on one frame.
FewDecos ==
    {[line |-> Underline(<<>>, TRUE), extent |-> 0],
     [line |-> Overline(<<>>, TRUE), extent |-> 60],
     [line |-> Strikethrough(<<>>), extent |-> -40],
     [line |-> Highlight([tag |-> "Metric", metric |-> "ascender"],
                         [tag |-> "Metric", metric |-> "descender"]), extent |-> 0],
     [line |-> Highlight([tag |-> "Metric", metric |-> "x-height"],
                         [tag |-> "Metric", metric |-> "baseline"]), extent |-> 60]}

FewTexts ==
    {[glyphs |-> <<[id |-> 2, x_advance |-> 500, x_offset |-> 0],
                   [id |-> 4, x_advance |-> 500, x_offset |-> 0],
                   [id |-> 2, x_advance |-> 500, x_offset |-> 0]>>, size |-> 1000],
     [glyphs |-> <<[id |-> 3, x_advance |-> 0, x_offset |-> -20],
                   [id |-> 4, x_advance |-> 500, x_offset |-> 0]>>, size |-> 500]}

\* Items already in the frame: earlier runs and their decorations.
TextItemOf(n) == [kind |-> "text", id |-> n]

OldLine == [kind |-> "line", x |-> -900, y |-> 0, dx |-> 300, thickness |-> 40]

Frames == {<<>>, <<TextItemOf(1)>>, <<TextItemOf(1), OldLine, TextItemOf(2)>>}

\* Content trees with a given number of nodes.
Strings == {<<>>, <<49>>, <<52, 110>>, <<105>>, <<97, 32>>, <<122>>}

Leaves ==
    {[tag |-> "Text", text |-> s] : s \in Strings}
    \cup {[tag |-> "Space"], [tag |-> "Empty"], [tag |-> "Linebreak"]}

RECURSIVE TreesOfSize(_)
RECURSIVE ForestsOfSize(_)
ForestsOfSize(n) ==
    IF n = 0 THEN {<<>>}
    ELSE UNION {{<<t>> \o f : t \in TreesOfSize(k), f \in ForestsOfSize(n - k)} : k \in 1..n}

TreesOfSize(n) ==
    IF n = 1 THEN Leaves \cup {[tag |-> "Sequence", seq |-> <<>>]}
    ELSE {[tag |-> "Sequence", seq |-> f] : f \in ForestsOfSize(n - 1)}

Contents == UNION {TreesOfSize(n) : n \in 1..MaxNodes}

OneContent == [tag |-> "Sequence", seq |-> <<[tag |-> "Text", text |-> <<49>>], [tag |-> "Space"]>>]

OneText == [glyphs |-> <<[id |-> 4, x_advance |-> 500, x_offset |-> 0]>>, size |-> 1000]

\* -------------------------------------------------------------------------
\* The state machine
\* -------------------------------------------------------------------------
InitCommon ==
    /\ initial = frame
    /\ prev = frame
    /\ done = <<>>
    /\ intersections = <<>>
    /\ scan = <<>>
    /\ found = <<>>

\* One decoration on any run.
Init ==
    /\ frame = <<TextItemOf(1)>>
    /\ text \in Texts
    /\ pos \in Positions
    /\ shift \in Shifts
    /\ todo \in {<<d>> : d \in Decos}
    /\ content = OneContent
    /\ mode = SUPERSCRIPT
    /\ InitCommon

\* The decorations of one run, applied one after the other to one frame.
InitSeq ==
    /\ frame \in Frames
    /\ text \in FewTexts
    /\ pos = [x |-> 100, y |-> 700]
    /\ shift = 0
    /\ todo \in SeqsUpTo(FewDecos, MaxDecos)
    /\ content = OneContent
    /\ mode = SUPERSCRIPT
    /\ InitCommon

\* Any content, either script kind.
InitShift ==
    /\ frame = <<TextItemOf(1)>>
    /\ text = OneText
    /\ pos = [x |-> 0, y |-> 0]
    /\ shift = 0
    /\ todo = <<[line |-> Underline(<<>>, TRUE), extent |-> 0]>>
    /\ content \in Contents
    /\ mode \in {SUPERSCRIPT, SUBSCRIPT}
    /\ InitCommon

\* The caller's loop: for deco in decos { decorate(frame, styles, deco, text, shift, pos) }
Decorate ==
    /\ todo # <<>>
    /\ LET res == decorate(frame, Head(todo), text, shift, pos)
       IN  /\ frame' = res.frame
           /\ intersections' = res.intersections
           /\ scan' = res.scan
    /\ prev' = frame
    /\ done' = Append(done, Head(todo))
    /\ todo' = Tail(todo)
    /\ UNCHANGED <<initial, text, pos, shift, content, mode, found>>

\* ShiftNode::realize calls search_text(&self.0, S) once.
SearchText ==
    /\ found = <<>>
    /\ found' = <<search_text(content, mode)>>
    /\ UNCHANGED <<frame, initial, prev, todo, done, intersections, scan, text, pos,
                   shift, content, mode>>

Next == Decorate \/ SearchText

Spec == Init /\ [][Next]_vars

SpecSeq == InitSeq /\ [][Next]_vars

SpecShift == InitShift /\ [][Next]_vars

\* -------------------------------------------------------------------------
\* Notions used by the properties
\* -------------------------------------------------------------------------
Called == done # <<>>

LastDeco == done[Len(done)]

LineCall == Called /\ LastDeco.line.kind # "Highlight"

HighlightCall == Called /\ LastDeco.line.kind = "Highlight"

EvadingCall ==
    /\ LineCall
    /\ LastDeco.line.kind \in {"Underline", "Overline"}
    /\ LastDeco.line.evade

PlainCall == LineCall /\ ~EvadingCall

\* The items the latest call put at the back of the frame.
Drawn == SubSeq(frame, Len(prev) + 1, Len(frame))

RunStart == pos.x

RunEnd == pos.x + TextWidth(text)

GapPadding == (text.size * 8) \div 100

MinWidth == (text.size * 162) \div 1000

IsStroke(it) == it.kind = "line"

\* The offset a line decoration asks for: the override, else the negated
\* font-metric position of its own kind.
WantedOffset ==
    IF LastDeco.line.offset # <<>> THEN LastDeco.line.offset[1]
    ELSE -((text.size *
            (CASE LastDeco.line.kind = "Underline"     -> FontMetrics.underline.position
               [] LastDeco.line.kind = "Overline"      -> FontMetrics.overline.position
               [] LastDeco.line.kind = "Strikethrough" -> FontMetrics.strikethrough.position))
           \div FontMetrics.units_per_em)

\* Candidate segments of an evading call: adjacent sorted points that are at
\* least gap_padding apart, shrunk by gap_padding on both sides.
Candidates ==
    {<<intersections[i] + GapPadding, intersections[i + 1] - GapPadding>> :
        i \in {k \in 1..(Len(intersections) - 1) :
                  intersections[k + 1] - intersections[k] >= GapPadding}}

DrawnSpans == {<<Drawn[i].x, Drawn[i].x + Drawn[i].dx>> : i \in 1..Len(Drawn)}

\* C1: with evasion disabled, decorate draws exactly one line segment, from
\* run_start - extent to run_end + extent, whatever the glyphs and the extent.
C1_PlainOneSegment ==
    PlainCall =>
        /\ Len(frame) = Len(prev) + 1
        /\ IsStroke(frame[Len(frame)])
        /\ frame[Len(frame)].x = RunStart - LastDeco.extent
        /\ frame[Len(frame)].x + frame[Len(frame)].dx = RunEnd + LastDeco.extent

\* C2: every segment of an evading run lies inside the padded run
\* [run_start - extent - gap_padding, run_end + extent + gap_padding].
C2_InsidePaddedRun ==
    EvadingCall =>
        \A i \in 1..Len(Drawn) :
            /\ Drawn[i].x >= RunStart - LastDeco.extent - GapPadding
            /\ Drawn[i].x + Drawn[i].dx <= RunEnd + LastDeco.extent + GapPadding

\* C3: in an evading run every drawn segment has strictly positive length and
\* consecutive drawn segments are at least gap_padding apart.
C3_PositiveAndApart ==
    EvadingCall =>
        /\ \A i \in 1..Len(Drawn) : IsStroke(Drawn[i]) /\ Drawn[i].dx > 0
        /\ \A i \in 1..(Len(Drawn) - 1) :
              Drawn[i + 1].x - (Drawn[i].x + Drawn[i].dx) >= GapPadding

\* Two segments are drawn although two adjacent points are between one and
\* two gap_padding apart.
C3_Witness ==
    /\ EvadingCall
    /\ Len(Drawn) >= 2
    /\ \E k \in 1..(Len(intersections) - 1) :
          /\ intersections[k + 1] - intersections[k] >= GapPadding
          /\ intersections[k + 1] - intersections[k] < 2 * GapPadding

\* C4: while evading, a candidate segment is drawn iff it is at least
\* min_width long; without evasion the one segment is drawn whatever its length.
C4_MinWidthOnlyEvading ==
    /\ EvadingCall =>
          /\ \A i \in 1..Len(Drawn) : Drawn[i].dx >= MinWidth
          /\ DrawnSpans = {c \in Candidates : c[2] - c[1] >= MinWidth}
          /\ Len(Drawn) = Cardinality(DrawnSpans)
    /\ PlainCall => Len(Drawn) = 1

\* An evading call that draws one candidate and drops another that is longer
\* than zero but shorter than min_width.
C4_Witness ==
    /\ EvadingCall
    /\ Len(Drawn) >= 1
    /\ \E c \in Candidates : c[2] - c[1] > 0 /\ c[2] - c[1] < MinWidth

\* The top and bottom a highlight rectangle was drawn with.
RectTop == pos.y - shift - frame[1].y

RectBottom == RectTop - frame[1].h

NominalTop == EdgeResolve(LastDeco.line.top_edge, text)

NominalBottom == EdgeResolve(LastDeco.line.bottom_edge, text)

Boxed == {i \in 1..Len(text.glyphs) : GlyphTable[text.glyphs[i].id].bbox # <<>>}

GlyphYMax(i) == (GlyphTable[text.glyphs[i].id].bbox[1].y_max * text.size)
                    \div FontMetrics.units_per_em

GlyphYMin(i) == (GlyphTable[text.glyphs[i].id].bbox[1].y_min * text.size)
                    \div FontMetrics.units_per_em

\* C5: the highlight covers every glyph with a bounding box, is never inside
\* the nominal edges, and glyphs without a bounding box do not move the edges.
C5_HighlightCovers ==
    HighlightCall =>
        /\ frame[1].kind = "rect"
        /\ \A i \in Boxed : RectTop >= GlyphYMax(i) /\ RectBottom <= GlyphYMin(i)
        /\ RectTop >= NominalTop
        /\ RectBottom <= NominalBottom
        /\ RectTop \in {NominalTop} \cup {GlyphYMax(i) : i \in Boxed}
        /\ RectBottom \in {NominalBottom} \cup {GlyphYMin(i) : i \in Boxed}

\* A highlight over a space and a glyph that sticks out of both nominal edges.
C5_Witness ==
    /\ HighlightCall
    /\ Boxed # {} /\ Boxed # 1..Len(text.glyphs)
    /\ RectTop > NominalTop
    /\ RectBottom < NominalBottom

\* C6: the frame is always: highlight rectangles, then the items it had at
\* first in their order, then line strokes; a highlight call puts exactly one
\* rectangle in front, a line call only adds strokes at the back, left to right.
C6_FrameOrder ==
    /\ \E i \in 0..Len(frame) :
          /\ \A k \in 1..i : frame[k].kind = "rect"
          /\ i + Len(initial) <= Len(frame)
          /\ SubSeq(frame, i + 1, i + Len(initial)) = initial
          /\ \A k \in (i + Len(initial) + 1)..Len(frame) : IsStroke(frame[k])
          /\ i = Cardinality({k \in 1..Len(done) : done[k].line.kind = "Highlight"})
    /\ HighlightCall =>
          /\ Len(frame) = Len(prev) + 1
          /\ frame[1].kind = "rect"
          /\ Tail(frame) = prev
    /\ LineCall =>
          /\ Len(frame) >= Len(prev)
          /\ SubSeq(frame, 1, Len(prev)) = prev
          /\ \A k \in 1..Len(Drawn) : IsStroke(Drawn[k])
          /\ \A k \in 1..(Len(Drawn) - 1) : Drawn[k].x < Drawn[k + 1].x

\* Two highlights and an evading line of two strokes on a frame with items.
C6_Witness ==
    /\ Len(initial) >= 2
    /\ Len(done) >= 3
    /\ Cardinality({k \in 1..Len(done) : done[k].line.kind = "Highlight"}) >= 2
    /\ EvadingCall
    /\ Len(Drawn) >= 2

\* The larger of the nominal top and every boxed glyph's y_max.
CoverTop ==
    CHOOSE v \in {NominalTop} \cup {GlyphYMax(i) : i \in Boxed} :
        \A c \in {NominalTop} \cup {GlyphYMax(i) : i \in Boxed} : v >= c

CoverBottom ==
    CHOOSE v \in {NominalBottom} \cup {GlyphYMin(i) : i \in Boxed} :
        \A c \in {NominalBottom} \cup {GlyphYMin(i) : i \in Boxed} : v <= c

\* C7: a highlight emits one rectangle of width run_width + 2 * extent and
\* height top - bottom at (pos.x - extent, pos.y - top - shift), so it spans
\* [pos.x - extent, pos.x + width + extent]; no stroke is emitted.
C7_HighlightRect ==
    HighlightCall =>
        /\ Len(frame) = Len(prev) + 1
        /\ Tail(frame) = prev
        /\ frame[1].kind = "rect"
        /\ frame[1].w = (RunEnd - RunStart) + 2 * LastDeco.extent
        /\ frame[1].h = CoverTop - CoverBottom
        /\ frame[1].x = pos.x - LastDeco.extent
        /\ frame[1].y = pos.y - CoverTop - shift
        /\ frame[1].x + frame[1].w = RunEnd + LastDeco.extent

\* A highlight with a negative extent under a non-zero baseline shift.
C7_Witness == HighlightCall /\ LastDeco.extent < 0 /\ shift # 0 /\ pos.y # 0

Searched == found # <<>>

RECURSIVE OnlyTextLeaves(_)
OnlyTextLeaves(c) ==
    CASE c.tag \in {"Text", "Space", "Empty"} -> TRUE
      [] c.tag = "Sequence" -> \A i \in 1..Len(c.seq) : OnlyTextLeaves(c.seq[i])
      [] OTHER -> FALSE

\* The leaves of a tree, left to right.
RECURSIVE LeavesOf(_)
LeavesOf(c) ==
    IF c.tag = "Sequence"
    THEN Concat([i \in 1..Len(c.seq) |-> LeavesOf(c.seq[i])])
    ELSE <<c>>

Mappable(ch) ==
    IF mode = 0
    THEN ch \in (48..57) \cup {43, 45, 61, 40, 41, 110, 105, 32}
    ELSE ch \in (48..57) \cup {43, 45, 61, 40, 41, 97, 101, 111, 120, 104, 107, 108,
                               109, 110, 112, 115, 116, 32}

AllMappable(c) ==
    \A i \in 1..Len(LeavesOf(c)) :
        LeavesOf(c)[i].tag = "Text" =>
            \A j \in 1..Len(LeavesOf(c)[i].text) : Mappable(LeavesOf(c)[i].text[j])

\* The conversion of one leaf of a tree of Text, Space and Empty leaves.
LeafText(l) ==
    CASE l.tag = "Space" -> <<32>>
      [] l.tag = "Empty" -> <<>>
      [] l.tag = "Text"  -> convert_script(l.text, mode)[1]

ConcatLeaves(c) == Concat([i \in 1..Len(LeavesOf(c)) |-> LeafText(LeavesOf(c)[i])])

C10_Clearance ==
    EvadingCall =>
        /\ \E i \in 1..Len(intersections) :
              intersections[i] = LineStart(LastDeco, pos) - GapPadding
        /\ \E i \in 1..Len(intersections) :
              intersections[i] = LineEnd(LastDeco, text, pos) + GapPadding
        /\ \A k \in 1..Len(Drawn) : \A i \in 1..Len(intersections) :
              \/ intersections[i] <= Drawn[k].x - GapPadding
              \/ intersections[i] >= Drawn[k].x + Drawn[k].dx + GapPadding
        /\ \A k \in 1..(Len(Drawn) - 1) :
              /\ Drawn[k].x < Drawn[k + 1].x
              /\ Drawn[k].x + Drawn[k].dx < Drawn[k + 1].x

\* Two strokes drawn around collisions of which two coincide.
C10_Witness ==
    /\ EvadingCall
    /\ Len(Drawn) >= 2
    /\ Len(intersections) >= 4
    /\ \E i \in 1..(Len(intersections) - 1) : intersections[i] = intersections[i + 1]

\* -------------------------------------------------------------------------
\* The collision scan
\* -------------------------------------------------------------------------
\* The y of the decoration line relative to the baseline.
LineY == WantedOffset - shift

GlyphBBox(k) == GlyphTable[text.glyphs[k].id].bbox

\* Every point of the glyph's outline lies inside its bounding box.
BoxEncloses(k) ==
    LET o == GlyphTable[text.glyphs[k].id].outline
    IN  \A i \in 1..Len(o) :
            /\ GlyphBBox(k) # <<>>
            /\ \A pt \in {o[i].p0, o[i].p1} :
                  /\ pt[1] >= GlyphBBox(k)[1].x_min /\ pt[1] <= GlyphBBox(k)[1].x_max
                  /\ pt[2] >= GlyphBBox(k)[1].y_min /\ pt[2] <= GlyphBBox(k)[1].y_max

\* The hits of the k-th glyph's path, as built by the scan, with the line,
\* whatever the bounding box says.
PathHits(k) ==
    LET path == GlyphPath(text.glyphs[k].id, text.size, scan[k].dx)
    IN  Concat([i \in 1..Len(path) |->
                   intersect_line(path[i], RunStart, RunEnd, LineY)])

UntestedScan == Concat([k \in 1..Len(scan) |-> PathHits(k)])

UntestedPoints ==
    UntestedScan \o <<LineStart(LastDeco, pos) - GapPadding,
                      LineEnd(LastDeco, text, pos) + GapPadding>>

Occurrences(seq, v) == Cardinality({i \in 1..Len(seq) : seq[i] = v})

\* C11: when the bounding boxes enclose the outlines, the points collected by
\* the scan that tests a glyph only if it has a bounding box with
\* -y_max <= offset <= -y_min are the points of a scan that tests every glyph;
\* a glyph without a bounding box contributes no point.
C11_BBoxTestNoEffect ==
    (EvadingCall /\ \A k \in 1..Len(text.glyphs) : BoxEncloses(k)) =>
        /\ Len(scan) = Len(text.glyphs)
        /\ \A k \in 1..Len(scan) :
              /\ scan[k].intersect <=>
                    /\ GlyphBBox(k) # <<>>
                    /\ LineY >= -((GlyphBBox(k)[1].y_max * text.size)
                                     \div FontMetrics.units_per_em)
                    /\ LineY <= -((GlyphBBox(k)[1].y_min * text.size)
                                     \div FontMetrics.units_per_em)
              /\ GlyphBBox(k) = <<>> => scan[k].hits = <<>>
              /\ scan[k].hits = PathHits(k)
        /\ Len(intersections) = Len(UntestedPoints)
        /\ \A i \in 1..Len(intersections) :
              Occurrences(intersections, intersections[i])
                  = Occurrences(UntestedPoints, intersections[i])

\* A run with a boxed glyph the line misses and a glyph the line crosses.
C11_Witness ==
    /\ EvadingCall
    /\ \E k \in 1..Len(scan) : GlyphBBox(k) # <<>> /\ ~scan[k].intersect
    /\ \E k \in 1..Len(scan) : scan[k].intersect /\ Len(scan[k].hits) >= 2

\* The advances of the first k glyphs of the run, as lengths.
RECURSIVE AdvanceSum(_)
AdvanceSum(k) ==
    IF k = 0 THEN 0
    ELSE AdvanceSum(k - 1)
         + (text.glyphs[k].x_advance * text.size) \div FontMetrics.units_per_em

\* C12: the scan takes the glyphs in run order; the k-th path is built at
\* pos.x + (advances of glyphs 1..k-1) + x_offset(k) and the cursor after the
\* k-th glyph is pos.x + (advances of glyphs 1..k), for every glyph, tested or
\* not, boxed or not; an x_offset never stays in the cursor.
C12_CursorInvariant ==
    EvadingCall =>
        /\ Len(scan) = Len(text.glyphs)
        /\ \A k \in 1..Len(scan) :
              /\ scan[k].id = text.glyphs[k].id
              /\ scan[k].dx = pos.x + AdvanceSum(k - 1)
                              + (text.glyphs[k].x_offset * text.size)
                                    \div FontMetrics.units_per_em
              /\ scan[k].x = pos.x + AdvanceSum(k)

\* A glyph without a bounding box, not tested, followed by a glyph the line
\* crosses; the run does not start at x = 0.
C12_Witness ==
    /\ EvadingCall
    /\ pos.x # 0
    /\ Len(scan) >= 2
    /\ GlyphBBox(1) = <<>>
    /\ ~scan[1].intersect
    /\ text.glyphs[1].x_advance > 0
    /\ scan[2].intersect
    /\ scan[2].hits # <<>>

====
